---- MODULE Spec2Model ----
(***************************************************************************)
(* Model of src/spacex-dash-app.py: the SpaceX launch dashboard.           *)
(*                                                                         *)
(* The script checks that the CSV exists, loads it into the data frame df, *)
(* builds a Dash layout (site dropdown, pie chart, payload range slider,   *)
(* scatter chart) and registers two callbacks, update_pie and              *)
(* update_scatter.  A browser session holds the two selector values; every *)
(* change of a selector posts one request per callback that lists the      *)
(* selector among its Inputs, and the (threaded) server runs the handlers. *)
(*                                                                         *)
(* A data frame is a sequence of rows; a Series is a function from its     *)
(* index labels to its values; a figure is a record holding what the       *)
(* chart shows (title, slices or points) or the error the handler raised.  *)
(***************************************************************************)
EXTENDS Integers, Sequences, FiniteSets

\* ------------------------------------------------------------------ bounds
\* Rows of the CSV file: 1..MaxRows.
MaxRows == 2
\* Payload masses and slider bounds of a request range over 0..MaxPayload.
MaxPayload == 2
\* Selector changes a browser session makes.
MaxEvents == 2
\* Requests the browser has posted and the server has not answered.
MaxInFlight == 2

\* --------------------------------------------------------------- constants
CSV_PATH == "spacex_launch_dash.csv"
ALL == "ALL"
SliderMin == 0
SliderMax == 10000
SliderStep == 1000

\* Values of the columns "Launch Site", "Booster Version Category", "class"
\* and "Payload Mass (kg)" of the file.
Sites == {"CCAFS LC-40", "KSC LC-39A"}
Boosters == {"FT"}
Classes == {0, 1}
Payloads == 0 .. MaxPayload

LaunchRecord == [site : Sites, payload : Payloads, class : Classes, booster : Boosters]

\* The files the program may find: at least one row, at most MaxRows.
Datasets == UNION {[1 .. n -> LaunchRecord] : n \in 1 .. MaxRows}

\* What a request may carry as the dropdown's value and as the slider's value
\* (the handlers validate neither: a site without rows and a reversed range
\* are both accepted).
SiteValues == {ALL} \cup Sites
Ranges == Payloads \X Payloads
\* What the slider's two handles can be dragged to: lower handle first.
SliderRanges == {r \in Ranges : r[1] <= r[2]}

VARIABLES
    fileExists,      \* os.path.exists(CSV_PATH) when the script starts
    csv,             \* the rows of the file on disk
    pandas2,         \* the installed pandas is 2.x (value_counts names its result "count")
    pc,              \* "boot", "exited", "loaded", "serving", "open"
    exit,            \* the status and message the process exited with, or NoExit
    df,              \* the module-level data frame
    pmin, pmax,      \* module-level payload minimum and maximum
    layout,          \* app.layout: the components' initial properties
    callbacks,       \* the callbacks registered with @app.callback
    site_dropdown,   \* the browser's current value of "site-dropdown"
    payload_slider,  \* the browser's current value of "payload-slider"
    pie_chart,       \* figure shown by "success-pie-chart"
    scatter_chart,   \* figure shown by "success-payload-scatter-chart"
    inflight,        \* callback requests the server has not answered yet
    served,          \* answered requests: what was asked and what was returned
    nEvents,         \* selector changes so far
    nextId           \* id of the next request

vars == <<fileExists, csv, pandas2, pc, exit, df, pmin, pmax, layout, callbacks,
          site_dropdown, payload_slider, pie_chart, scatter_chart, inflight,
          served, nEvents, nextId>>

\* ----------------------------------------------------------------- helpers
NoExit == [code |-> 0, msg |-> <<>>]
NoFigure == [status |-> "none"]
NoFrame == <<>>
NoValue == "unset"

RECURSIVE SeqSum(_)
SeqSum(s) == IF s = <<>> THEN 0 ELSE Head(s) + SeqSum(Tail(s))

SetMin(S) == CHOOSE x \in S : \A y \in S : x <= y
SetMax(S) == CHOOSE x \in S : \A y \in S : x >= y

\* Series.min() / Series.max() of the column "Payload Mass (kg)".
ColumnMin(d) == SetMin({d[i].payload : i \in DOMAIN d})
ColumnMax(d) == SetMax({d[i].payload : i \in DOMAIN d})

\* frame[mask]: the rows whose mask entry is TRUE, in the frame's order.
RECURSIVE BoolIndex(_, _)
BoolIndex(d, mask) ==
    IF d = <<>> THEN <<>>
    ELSE LET rest == BoolIndex(Tail(d), Tail(mask))
         IN  IF Head(mask) THEN <<Head(d)>> \o rest ELSE rest

\* Mutants of the mask: an exclusive upper bound; bounds put in order first.
PayloadMaskExclusive(d, lo, hi) ==
    [i \in DOMAIN d |-> d[i].payload >= lo /\ d[i].payload < hi]
PayloadMaskSorted(d, lo, hi) ==
    [i \in DOMAIN d |->
        /\ d[i].payload >= (IF lo <= hi THEN lo ELSE hi)
        /\ d[i].payload <= (IF lo <= hi THEN hi ELSE lo)]

\* (df["Payload Mass (kg)"] >= lo) & (df["Payload Mass (kg)"] <= hi)
PayloadMask(d, lo, hi) == [i \in DOMAIN d |-> d[i].payload >= lo /\ d[i].payload <= hi]

\* data["Launch Site"] == selected_site
SiteMask(d, selected_site) == [i \in DOMAIN d |-> d[i].site = selected_site]

\* ------------------------------------------------------------- update_pie
\* Mutant of the slices: the number of rows per label (launches, not successes).
PieSliceCounts(labels, values) ==
    [l \in {labels[i] : i \in DOMAIN labels} |->
        Cardinality({i \in DOMAIN labels : labels[i] = l})]

\* px.pie hands the label and value columns to plotly's pie trace, which
\* draws one slice per distinct label, its value the sum of the values of the
\* rows carrying that label.
PieSlices(labels, values) ==
    [l \in {labels[i] : i \in DOMAIN labels} |->
        SeqSum([i \in DOMAIN labels |-> IF labels[i] = l THEN values[i] ELSE 0])]

\* px.pie(frame, values=..., names=...): both must be columns of the frame.
PxPie(frame, values, names, title) ==
    IF values \in DOMAIN frame.cols /\ names \in DOMAIN frame.cols
    THEN [status |-> "ok", title |-> title,
          slices |-> PieSlices(frame.cols[names], frame.cols[values])]
    ELSE [status |-> "error", error |-> "ValueError"]

\* The columns of df that update_pie reads, as a frame of named columns.
SiteClassFrame(d) ==
    [cols |-> [c \in {"Launch Site", "class"} |->
                 IF c = "class" THEN [i \in DOMAIN d |-> d[i].class]
                 ELSE [i \in DOMAIN d |-> d[i].site]]]

\* site_df["class"].value_counts(): a Series from each class value present to
\* its number of rows; pandas 1.x names the Series after the column and leaves
\* the index unnamed, pandas 2.x names the Series "count" and the index after
\* the column.
ValueCounts(d, isPandas2) ==
    [name      |-> IF isPandas2 THEN "count" ELSE "class",
     indexName |-> IF isPandas2 THEN "class" ELSE "index",
     data      |-> [v \in {d[i].class : i \in DOMAIN d} |->
                      Cardinality({i \in DOMAIN d : d[i].class = v})]]

\* .rename(index={0: "Failure", 1: "Success"})
OutcomeLabel(v) == IF v = 0 THEN "Failure" ELSE IF v = 1 THEN "Success" ELSE v

RenameIndex(series) ==
    [series EXCEPT !.data =
        [l \in {OutcomeLabel(v) : v \in DOMAIN series.data} |->
            series.data[CHOOSE v \in DOMAIN series.data : OutcomeLabel(v) = l]]]

\* An enumeration of a finite set as a sequence (the order of the rows).
RECURSIVE SetToSeq(_)
SetToSeq(S) ==
    IF S = {} THEN <<>>
    ELSE LET x == CHOOSE y \in S : TRUE IN <<x>> \o SetToSeq(S \ {x})

\* .reset_index(): the index becomes a column named after the index (or
\* "index" when the index has no name), the values a column named after the
\* Series.
ResetIndex(series) ==
    LET idx == SetToSeq(DOMAIN series.data)
    IN  [cols |-> [c \in {series.indexName, series.name} |->
                     IF c = series.indexName THEN idx
                     ELSE [i \in DOMAIN idx |-> series.data[idx[i]]]]]

\* .rename(columns={"index": "Outcome", "class": "Count"})
ColumnName(c) == IF c = "index" THEN "Outcome" ELSE IF c = "class" THEN "Count" ELSE c

RenameColumns(frame) ==
    [cols |-> [n \in {ColumnName(c) : c \in DOMAIN frame.cols} |->
                 frame.cols[CHOOSE c \in DOMAIN frame.cols : ColumnName(c) = n]]]

PieTitleAll == <<"Total Successful Launches by Site">>
PieTitleSite(selected_site) == <<"Launch Outcomes for ", selected_site>>

\* df[df["Launch Site"] == selected_site]
SiteRows(d, selected_site) == BoolIndex(d, SiteMask(d, selected_site))

\* The rows update_pie hands on: df itself, or site_df.
PieData(d, selected_site) ==
    IF selected_site = ALL THEN d ELSE SiteRows(d, selected_site)

\* The figure update_pie builds from those rows: px.pie over df, or over the
\* outcome frame derived from site_df.
PieFigure(data, selected_site, isPandas2) ==
    IF selected_site = ALL
    THEN PxPie(SiteClassFrame(data), "class", "Launch Site", PieTitleAll)
    ELSE LET outcome ==
                 RenameColumns(ResetIndex(RenameIndex(ValueCounts(data, isPandas2))))
         IN  PxPie(outcome, "Count", "Outcome", PieTitleSite(selected_site))

update_pie(d, selected_site, isPandas2) ==
    PieFigure(PieData(d, selected_site), selected_site, isPandas2)

\* --------------------------------------------------------- update_scatter
\* data = df[mask]
RangeRows(d, payload_range) ==
    BoolIndex(d, PayloadMask(d, payload_range[1], payload_range[2]))

\* Mutant: the site restriction is left out.
SiteRestrictNone(data, selected_site) == data

\* if selected_site != "ALL": data = data[data["Launch Site"] == selected_site]
SiteRestrict(data, selected_site) ==
    IF selected_site # ALL THEN BoolIndex(data, SiteMask(data, selected_site)) ELSE data

ScatterTitle(selected_site) ==
    IF selected_site = ALL
    THEN <<"Correlation between Payload and Success for All Sites">>
    ELSE <<"Correlation between Payload and Success for ", selected_site>>

\* px.scatter(data, x=payload, y=class, color=booster, hover_data=[site]):
\* one point per row of data.
PxScatter(data, title) ==
    [status |-> "ok", title |-> title,
     points |-> [i \in DOMAIN data |->
                   [x |-> data[i].payload, y |-> data[i].class,
                    color |-> data[i].booster, hover |-> data[i].site]]]

\* The figure update_scatter builds from data = df[mask].
ScatterFigure(data, selected_site) ==
    PxScatter(SiteRestrict(data, selected_site), ScatterTitle(selected_site))

update_scatter(d, selected_site, payload_range) ==
    ScatterFigure(RangeRows(d, payload_range), selected_site)

\* ---------------------------------------------------------------- startup
\* sys.exit(f"ERROR: '{CSV_PATH}' not found in the current folder."): the
\* message goes to stderr and the exit status is 1.
MissingFileExit ==
    [code |-> 1, msg |-> <<"ERROR: '", CSV_PATH, "' not found in the current folder.">>]

\* Mutant: the slider starts at its own bounds.
LayoutSliderBounds(lo, hi) ==
    [dropdown |-> [id |-> "site-dropdown", value |-> ALL],
     slider   |-> [id |-> "payload-slider", min |-> SliderMin, max |-> SliderMax,
                   step |-> SliderStep, value |-> <<SliderMin, SliderMax>>]]

\* The two selectors of app.layout with the properties the handlers depend on.
Layout(lo, hi) ==
    [dropdown |-> [id |-> "site-dropdown", value |-> ALL],
     slider   |-> [id |-> "payload-slider", min |-> SliderMin, max |-> SliderMax,
                   step |-> SliderStep, value |-> <<lo, hi>>]]

\* Mutant: update_pie also listens to the slider.
PieCallbackBoth ==
    [fn |-> "update_pie", output |-> "success-pie-chart",
     inputs |-> <<"site-dropdown", "payload-slider">>]

\* @app.callback(Output(...), Input(...)) of update_pie and of update_scatter,
\* in the order the script registers them.
PieCallback ==
    [fn |-> "update_pie", output |-> "success-pie-chart",
     inputs |-> <<"site-dropdown">>]
ScatterCallback ==
    [fn |-> "update_scatter", output |-> "success-payload-scatter-chart",
     inputs |-> <<"site-dropdown", "payload-slider">>]
Callbacks == <<PieCallback, ScatterCallback>>

\* The processes the model starts from: the file is there or not, and holds
\* one of the given tables.
Boot(files) ==
    /\ fileExists \in BOOLEAN
    /\ csv \in (IF fileExists THEN files ELSE {NoFrame})
    /\ pandas2 \in BOOLEAN
    /\ pc = "boot"
    /\ exit = NoExit
    /\ df = NoFrame
    /\ pmin = NoValue
    /\ pmax = NoValue
    /\ layout = NoValue
    /\ callbacks = <<>>
    /\ site_dropdown = NoValue
    /\ payload_slider = NoValue
    /\ pie_chart = NoFigure
    /\ scatter_chart = NoFigure
    /\ inflight = {}
    /\ served = {}
    /\ nEvents = 0
    /\ nextId = 1

\* Mutant: the error is reported and the script goes on.
ExitMissingGoesOn ==
    /\ pc = "boot"
    /\ ~fileExists
    /\ pc' = "loaded"
    /\ exit' = MissingFileExit
    /\ UNCHANGED <<fileExists, csv, pandas2, df, pmin, pmax, layout, callbacks,
                   site_dropdown, payload_slider, pie_chart, scatter_chart,
                   inflight, served, nEvents, nextId>>

\* Lines 18-19: the file is missing and the process exits.
ExitMissing ==
    /\ pc = "boot"
    /\ ~fileExists
    /\ pc' = "exited"
    /\ exit' = MissingFileExit
    /\ UNCHANGED <<fileExists, csv, pandas2, df, pmin, pmax, layout, callbacks,
                   site_dropdown, payload_slider, pie_chart, scatter_chart,
                   inflight, served, nEvents, nextId>>

\* Lines 21-23: read the file, take the payload column's minimum and maximum.
LoadData ==
    /\ pc = "boot"
    /\ fileExists
    /\ df' = csv
    /\ pmin' = ColumnMin(csv)
    /\ pmax' = ColumnMax(csv)
    /\ pc' = "loaded"
    /\ UNCHANGED <<fileExists, csv, pandas2, exit, layout, callbacks,
                   site_dropdown, payload_slider, pie_chart, scatter_chart,
                   inflight, served, nEvents, nextId>>

\* Lines 26-131: build the layout, register both callbacks, start the server.
BuildApp ==
    /\ pc = "loaded"
    /\ layout' = Layout(pmin, pmax)
    /\ callbacks' = Callbacks
    /\ pc' = "serving"
    /\ UNCHANGED <<fileExists, csv, pandas2, exit, df, pmin, pmax,
                   site_dropdown, payload_slider, pie_chart, scatter_chart,
                   inflight, served, nEvents, nextId>>

\* --------------------------------------------------------------- requests
\* Input(prop, "value") is among the callback's inputs.
Listens(cb, prop) == \E i \in DOMAIN cb.inputs : cb.inputs[i] = prop

\* The request the browser posts for a callback: the current values of the
\* callback's inputs, and nothing of the selectors it does not list.
NewRequest(cb, id, site, range) ==
    [id |-> id, fn |-> cb.fn,
     site  |-> IF Listens(cb, "site-dropdown") THEN site ELSE NoValue,
     range |-> IF Listens(cb, "payload-slider") THEN range ELSE NoValue,
     stage |-> "recv", data |-> NoFrame]

\* One request per registered callback among those indexed by J, numbered
\* from nextId in registration order.
Requests(J, site, range) ==
    {NewRequest(callbacks[i], nextId + Cardinality({j \in J : j < i}), site, range) : i \in J}

\* The callbacks a change of prop triggers.
Triggered(prop) == {i \in DOMAIN callbacks : Listens(callbacks[i], prop)}

\* The browser loads the page: the selectors take the layout's values and
\* every callback is called once with them.
OpenPage ==
    /\ pc = "serving"
    /\ pc' = "open"
    /\ site_dropdown' = layout.dropdown.value
    /\ payload_slider' = layout.slider.value
    /\ inflight' = Requests(DOMAIN callbacks, layout.dropdown.value, layout.slider.value)
    /\ nextId' = nextId + Len(callbacks)
    /\ UNCHANGED <<fileExists, csv, pandas2, exit, df, pmin, pmax, layout, callbacks,
                   pie_chart, scatter_chart, served, nEvents>>

\* The user picks another site in the dropdown.
SelectSite(s) ==
    /\ pc = "open"
    /\ nEvents < MaxEvents
    /\ Cardinality(inflight) + Cardinality(Triggered("site-dropdown")) <= MaxInFlight
    /\ s # site_dropdown
    /\ site_dropdown' = s
    /\ inflight' = inflight \cup Requests(Triggered("site-dropdown"), s, payload_slider)
    /\ nextId' = nextId + Cardinality(Triggered("site-dropdown"))
    /\ nEvents' = nEvents + 1
    /\ UNCHANGED <<fileExists, csv, pandas2, pc, exit, df, pmin, pmax, layout, callbacks,
                   payload_slider, pie_chart, scatter_chart, served>>

\* The user moves a handle of the payload slider.
MoveSlider(r) ==
    /\ pc = "open"
    /\ nEvents < MaxEvents
    /\ Cardinality(inflight) + Cardinality(Triggered("payload-slider")) <= MaxInFlight
    /\ r # payload_slider
    /\ payload_slider' = r
    /\ inflight' = inflight \cup Requests(Triggered("payload-slider"), site_dropdown, r)
    /\ nextId' = nextId + Cardinality(Triggered("payload-slider"))
    /\ nEvents' = nEvents + 1
    /\ UNCHANGED <<fileExists, csv, pandas2, pc, exit, df, pmin, pmax, layout, callbacks,
                   site_dropdown, pie_chart, scatter_chart, served>>

\* --------------------------------------------------------------- handlers
\* A handler thread's first step: read df into the handler's local frame
\* (site_df or df in update_pie, data = df[mask] in update_scatter).
HandlerData(req) ==
    IF req.fn = "update_pie" THEN PieData(df, req.site) ELSE RangeRows(df, req.range)

\* A handler thread's second step: the figure it returns.
HandlerFigure(req) ==
    IF req.fn = "update_pie" THEN PieFigure(req.data, req.site, pandas2)
    ELSE ScatterFigure(req.data, req.site)

\* Mutants: the handler's first step filters df in place; its second step
\* stores its local frame in df.
DfAfterFilteredInPlace(req) == IF req.stage = "recv" THEN HandlerData(req) ELSE df
DfAfterStored(req) == IF req.stage = "run" THEN req.data ELSE df

\* What a handler step leaves of the module-level frame: the handlers only
\* read df (no global statement, no in-place operation on it or its views).
DfAfter(req) == df

\* The record kept of an answered request.
Answer(req, out) ==
    [id |-> req.id, fn |-> req.fn, site |-> req.site, range |-> req.range, out |-> out]

\* No later request of the same callback has been posted.
Newest(req) ==
    /\ \A q \in inflight : q.fn = req.fn => q.id <= req.id
    /\ \A a \in served : a.fn = req.fn => a.id <= req.id

Begin(req) ==
    /\ req \in inflight
    /\ req.stage = "recv"
    /\ inflight' = (inflight \ {req}) \cup {[req EXCEPT !.stage = "run", !.data = HandlerData(req)]}
    /\ df' = DfAfter(req)
    /\ UNCHANGED <<fileExists, csv, pandas2, pc, exit, pmin, pmax, layout, callbacks,
                   site_dropdown, payload_slider, pie_chart, scatter_chart, served,
                   nEvents, nextId>>

\* The handler returns (or raises) and the browser receives the response: a
\* figure replaces the chart's, an error leaves the chart as it is; the
\* response to a request that a later one has overtaken may be dropped.
Finish(req, shown) ==
    /\ req \in inflight
    /\ req.stage = "run"
    /\ Newest(req) => shown
    /\ LET out == HandlerFigure(req)
           show == shown /\ out.status = "ok"
       IN  /\ served' = served \cup {Answer(req, out)}
           /\ pie_chart' = IF show /\ req.fn = "update_pie" THEN out ELSE pie_chart
           /\ scatter_chart' = IF show /\ req.fn = "update_scatter" THEN out ELSE scatter_chart
    /\ inflight' = inflight \ {req}
    /\ df' = DfAfter(req)
    /\ UNCHANGED <<fileExists, csv, pandas2, pc, exit, pmin, pmax, layout, callbacks,
                   site_dropdown, payload_slider, nEvents, nextId>>

\* A handler run from its first to its last line.
RunHandler(req) ==
    IF req.fn = "update_pie" THEN update_pie(df, req.site, pandas2)
    ELSE update_scatter(df, req.site, req.range)

\* A client posts both callbacks with the filter state (s, r) and the server
\* answers them one after the other.
Query(s, r) ==
    /\ pc = "serving"
    /\ served = {}
    /\ served' = {Answer(req, RunHandler(req)) : req \in Requests(DOMAIN callbacks, s, r)}
    /\ nextId' = nextId + Len(callbacks)
    /\ UNCHANGED <<fileExists, csv, pandas2, pc, exit, df, pmin, pmax, layout, callbacks,
                   site_dropdown, payload_slider, pie_chart, scatter_chart, inflight,
                   nEvents>>

\* ---------------------------------------------------------- specifications
\* The table of the specification's example, {(SiteA,1),(SiteA,0),(SiteB,1)},
\* with payloads.
ExampleFile ==
    << [site |-> "CCAFS LC-40", payload |-> 0, class |-> 1, booster |-> "FT"],
       [site |-> "CCAFS LC-40", payload |-> 1, class |-> 0, booster |-> "FT"],
       [site |-> "KSC LC-39A", payload |-> 2, class |-> 1, booster |-> "FT"] >>

\* The dashboard with one browser session: startup, page load, selector
\* changes and the handler threads, interleaved.
Init == Boot({ExampleFile})

Next ==
    \/ ExitMissing
    \/ LoadData
    \/ BuildApp
    \/ OpenPage
    \/ \E s \in SiteValues : SelectSite(s)
    \/ \E r \in SliderRanges : MoveSlider(r)
    \/ \E req \in inflight : Begin(req)
    \/ \E req \in inflight, shown \in BOOLEAN : Finish(req, shown)

Spec == Init /\ [][Next]_vars

\* Startup and page load over every file.
InitStartup == Boot(Datasets)

NextStartup ==
    \/ ExitMissing
    \/ LoadData
    \/ BuildApp
    \/ OpenPage
    \/ \E req \in inflight : Begin(req)
    \/ \E req \in inflight, shown \in BOOLEAN : Finish(req, shown)

SpecStartup == InitStartup /\ [][NextStartup]_vars

\* The handlers over every file (and the example table) and every filter
\* state: the server is up and one client queries it.
InitHandlers ==
    /\ fileExists = TRUE
    /\ csv \in Datasets \cup {ExampleFile}
    /\ pandas2 \in BOOLEAN
    /\ pc = "serving"
    /\ exit = NoExit
    /\ df = csv
    /\ pmin = ColumnMin(csv)
    /\ pmax = ColumnMax(csv)
    /\ layout = Layout(ColumnMin(csv), ColumnMax(csv))
    /\ callbacks = Callbacks
    /\ site_dropdown = NoValue
    /\ payload_slider = NoValue
    /\ pie_chart = NoFigure
    /\ scatter_chart = NoFigure
    /\ inflight = {}
    /\ served = {}
    /\ nEvents = 0
    /\ nextId = 1

NextHandlers == \E s \in SiteValues, r \in Ranges : Query(s, r)

SpecHandlers == InitHandlers /\ [][NextHandlers]_vars

\* ------------------------------------------------------------------ claims
\* Helpers of the claims' statements, written over the file's rows.
Rows == DOMAIN csv
InRange(i, r) == r[1] <= csv[i].payload /\ csv[i].payload <= r[2]
Point(i) ==
    [x |-> csv[i].payload, y |-> csv[i].class, color |-> csv[i].booster,
     hover |-> csv[i].site]
Occurrences(points, p) == Cardinality({k \in DOMAIN points : points[k] = p})
SitesOf(d) == {d[i].site : i \in DOMAIN d}
Successes(site) == Cardinality({i \in Rows : csv[i].site = site /\ csv[i].class = 1})
RECURSIVE SliceTotal(_, _)
SliceTotal(slices, labels) ==
    IF labels = {} THEN 0
    ELSE LET l == CHOOSE x \in labels : TRUE
         IN  slices[l] + SliceTotal(slices, labels \ {l})
PieAnswers == {a \in served : a.fn = "update_pie"}
ScatterAnswers == {a \in served : a.fn = "update_scatter"}
\* The points of a scatter answer are exactly the rows i with Keep(i), each
\* as often as it occurs.
ExactlyRows(a, keep) ==
    /\ a.out.status = "ok"
    /\ Len(a.out.points) = Cardinality(keep)
    /\ \A i \in Rows :
          Occurrences(a.out.points, Point(i)) = Cardinality({j \in keep : Point(j) = Point(i)})

\* C1: when the file is missing at startup the process exits with a failure
\* status and a message naming the path, nothing runs after the exit, and it
\* never loads the data, registers a callback or has a request; requests
\* exist only in runs where the file was there.
C1_MissingFileExits ==
    /\ ~fileExists =>
          /\ pc \in {"boot", "exited"}
          /\ pc = "boot" => ENABLED ExitMissing
          /\ pc = "exited" =>
                /\ exit.code # 0
                /\ \E k \in DOMAIN exit.msg : exit.msg[k] = CSV_PATH
                /\ ~ENABLED Next
          /\ df = NoFrame /\ pmin = NoValue /\ pmax = NoValue
          /\ layout = NoValue /\ callbacks = <<>>
          /\ inflight = {} /\ served = {}
          /\ pie_chart = NoFigure /\ scatter_chart = NoFigure
    /\ (inflight # {} \/ served # {}) => fileExists
    /\ pc = "exited" => ~fileExists

C1_Witness == ~fileExists /\ pc = "exited" /\ exit = MissingFileExit

\* C2: update_pie with "ALL" returns one slice per launch site of the file,
\* its value the number of that site's rows with class 1, and the slices add
\* up to the number of rows with class 1 in the whole file.
C2_AllSitesPie ==
    \A a \in PieAnswers :
        a.site = ALL =>
            /\ a.out.status = "ok"
            /\ DOMAIN a.out.slices = SitesOf(csv)
            /\ \A site \in SitesOf(csv) : a.out.slices[site] = Successes(site)
            /\ SliceTotal(a.out.slices, DOMAIN a.out.slices)
                 = Cardinality({i \in Rows : csv[i].class = 1})

\* The example table: the site with a success and a failure gets the value
\* 1, not 2, and so does the site with one success.
C2_Witness ==
    \E a \in PieAnswers :
        /\ a.site = ALL
        /\ csv = ExampleFile
        /\ a.out.slices["CCAFS LC-40"] = 1
        /\ a.out.slices["KSC LC-39A"] = 1

\* C3: update_pie with a concrete site returns exactly the labels among
\* "Success" and "Failure" whose class occurs in that site's rows, with the
\* number of the site's rows of class 1 and of class 0; a site without rows
\* gives an empty summary and no error.
C3_SingleSitePie ==
    \A a \in PieAnswers :
        a.site # ALL =>
            LET mine == {i \in Rows : csv[i].site = a.site}
                ones == {i \in mine : csv[i].class = 1}
                zeros == {i \in mine : csv[i].class = 0}
            IN  /\ a.out.status = "ok"
                /\ DOMAIN a.out.slices =
                     (IF ones # {} THEN {"Success"} ELSE {})
                       \cup (IF zeros # {} THEN {"Failure"} ELSE {})
                /\ ones # {} => a.out.slices["Success"] = Cardinality(ones)
                /\ zeros # {} => a.out.slices["Failure"] = Cardinality(zeros)

\* C4: update_scatter with "ALL" and the range [lo, hi] returns exactly the
\* rows with lo <= payload <= hi: rows at lo and at hi are in, rows at lo-1
\* and at hi+1 are out.
C4_RangeInclusive ==
    \A a \in ScatterAnswers :
        a.site = ALL =>
            /\ ExactlyRows(a, {i \in Rows : InRange(i, a.range)})
            /\ \A i \in Rows :
                  /\ csv[i].payload \in {a.range[1], a.range[2]} /\ a.range[1] <= a.range[2]
                        => Occurrences(a.out.points, Point(i)) >= 1
                  /\ csv[i].payload \in {a.range[1] - 1, a.range[2] + 1}
                        => \A k \in DOMAIN a.out.points :
                              a.out.points[k].x # csv[i].payload

\* A row at the bounds is returned, a row just below the lower bound and a
\* row just above the upper bound are not.
C4_Witness ==
    \E a \in ScatterAnswers :
        /\ a.site = ALL
        /\ \E i, j, k \in Rows :
              /\ csv[i].payload = a.range[1] - 1
              /\ csv[j].payload \in {a.range[1], a.range[2]}
              /\ csv[k].payload = a.range[2] + 1
        /\ Len(a.out.points) = 1

\* C5: update_scatter with a concrete site and the range [lo, hi] returns
\* exactly the rows of that site with lo <= payload <= hi, so never more than
\* the "ALL" result for the same range.
C5_SiteAndRange ==
    \A a \in ScatterAnswers :
        a.site # ALL =>
            /\ ExactlyRows(a, {i \in Rows : csv[i].site = a.site /\ InRange(i, a.range)})
            /\ \A k \in DOMAIN a.out.points :
                  /\ a.out.points[k].hover = a.site
                  /\ a.range[1] <= a.out.points[k].x /\ a.out.points[k].x <= a.range[2]
                  /\ Occurrences(a.out.points, a.out.points[k])
                       <= Occurrences(update_scatter(csv, ALL, a.range).points,
                                      a.out.points[k])

\* A row of the selected site in the range, a row of it outside the range
\* and a row of another site in the range: one point.
C5_Witness ==
    \E a \in ScatterAnswers :
        /\ a.site # ALL
        /\ \E i, j, k \in Rows :
              /\ csv[i].site = a.site /\ InRange(i, a.range)
              /\ csv[j].site = a.site /\ ~InRange(j, a.range)
              /\ csv[k].site # a.site /\ InRange(k, a.range)
        /\ Len(a.out.points) = 1

\* C6 as stated: for a filter state with lo > hi and any site, the scatter
\* point set is empty, the pie summary is empty, and neither handler ends in
\* an error.
C6_ReversedRangeEmptiesBoth ==
    \A sc \in ScatterAnswers :
        sc.range[1] > sc.range[2] =>
            /\ sc.out.status = "ok"
            /\ sc.out.points = <<>>
            /\ \A pie \in PieAnswers :
                  /\ pie.out.status = "ok"
                  /\ DOMAIN pie.out.slices = {}

\* C6 as amended: for a filter state with lo > hi and any site, the scatter
\* point set is empty and update_scatter ends without an error; update_pie is
\* not given the range, and with "ALL" it returns, without an error, the
\* all-sites summary with one slice per site of the file.
C6_ReversedRangeEmptiesScatter ==
    \A sc \in ScatterAnswers :
        sc.range[1] > sc.range[2] =>
            /\ sc.out.status = "ok"
            /\ sc.out.points = <<>>
            /\ \A pie \in PieAnswers :
                  /\ pie.site = sc.site
                  /\ pie.range = NoValue
                  /\ pie.site = ALL =>
                        /\ pie.out.status = "ok"
                        /\ DOMAIN pie.out.slices = SitesOf(csv)
                        /\ DOMAIN pie.out.slices # {}

\* A reversed range with a row between its bounds.
C6_Witness ==
    \E sc \in ScatterAnswers :
        /\ sc.range[1] > sc.range[2]
        /\ \E i \in Rows : sc.range[2] <= csv[i].payload /\ csv[i].payload <= sc.range[1]
        /\ sc.out.points = <<>>
        /\ \E pie \in PieAnswers : pie.site = ALL /\ DOMAIN pie.out.slices # {}

\* C7: whatever was asked before, two requests of the same callback with the
\* same site and the same range get the same answer.
C7_SameRequestSameAnswer ==
    \A a, b \in served :
        (a.fn = b.fn /\ a.site = b.site /\ a.range = b.range) => a.out = b.out

\* The same request answered twice with a different one answered in between.
C7_Witness ==
    \E a, b, c \in served :
        /\ a.fn = b.fn /\ a.site = b.site /\ a.range = b.range
        /\ c.fn = a.fn /\ c.site # a.site
        /\ a.id < c.id /\ c.id < b.id

\* C8: a change of the selected site posts exactly one update_pie request and
\* exactly one update_scatter request; a change of the payload range posts
\* exactly one update_scatter request, posts no update_pie request and leaves
\* the pie chart as it is; no update_pie request carries the range; every
\* posted request is run once.
C8_Posted == inflight' \ inflight
C8_Step ==
    /\ (pc = "open" /\ site_dropdown' # site_dropdown) =>
          /\ inflight \subseteq inflight'
          /\ Cardinality(C8_Posted) = 2
          /\ \E q \in C8_Posted :
                q.fn = "update_pie" /\ q.site = site_dropdown' /\ q.stage = "recv"
          /\ \E q \in C8_Posted :
                /\ q.fn = "update_scatter" /\ q.stage = "recv"
                /\ q.site = site_dropdown' /\ q.range = payload_slider
    /\ (pc = "open" /\ payload_slider' # payload_slider) =>
          /\ inflight \subseteq inflight'
          /\ Cardinality(C8_Posted) = 1
          /\ \A q \in C8_Posted :
                /\ q.fn = "update_scatter" /\ q.stage = "recv"
                /\ q.site = site_dropdown /\ q.range = payload_slider'
          /\ pie_chart' = pie_chart
C8_Counts ==
    /\ \A q \in inflight \cup served : q.fn = "update_pie" => q.range = NoValue
    /\ \A q \in inflight : \A a \in served : q.id # a.id
    /\ \A a, b \in served : a.id = b.id => a = b
    /\ pc = "open" =>
          /\ Cardinality({q.id : q \in inflight \cup served}) = nextId - 1
          /\ Cardinality({q.id : q \in {x \in inflight \cup served : x.fn = "update_scatter"}})
               = 1 + nEvents
C8_ReactiveWiring == [](C8_Counts) /\ [][C8_Step]_vars

\* The slider was moved after the pie was drawn: one scatter request is
\* pending and no pie request.
C8_Witness ==
    /\ pc = "open"
    /\ nEvents >= 1
    /\ payload_slider # layout.slider.value
    /\ site_dropdown = layout.dropdown.value
    /\ pie_chart.status = "ok"
    /\ Cardinality(inflight) = 1
    /\ \A q \in inflight : q.fn = "update_scatter" /\ q.range = payload_slider

\* C9: under every interleaving of the handler threads df stays the table
\* that was loaded, the frames the handlers derived are those of that table,
\* and every answer is the one the handler gives when run alone on it.
C9_DatasetReadOnly ==
    /\ pc \in {"loaded", "serving", "open"} => df = csv
    /\ \A q \in inflight :
          q.stage = "run" =>
              q.data = (IF q.fn = "update_pie" THEN PieData(csv, q.site)
                        ELSE RangeRows(csv, q.range))
    /\ \A a \in served :
          a.out = (IF a.fn = "update_pie" THEN update_pie(csv, a.site, pandas2)
                   ELSE update_scatter(csv, a.site, a.range))

\* Two handlers are in the middle of their run after another has answered.
C9_Witness ==
    /\ Cardinality({q \in inflight : q.stage = "run"}) >= 2
    /\ served # {}
    /\ df = csv

\* C10: before any selector change the filter state is "ALL" with the range
\* from the file's smallest to its largest payload, whatever the slider's own
\* min, max and step; the scatter answer for it has one point per row of the
\* file, in the file's order, and the pie answer is the all-sites summary.
C10_DefaultFilterState ==
    (pc = "open" /\ nEvents = 0) =>
        /\ site_dropdown = ALL
        /\ \E i, j \in Rows : payload_slider = <<csv[i].payload, csv[j].payload>>
        /\ \A i \in Rows : InRange(i, payload_slider)
        /\ \A q \in inflight \cup served :
              /\ q.site = ALL
              /\ q.fn = "update_scatter" => q.range = payload_slider
        /\ \A a \in ScatterAnswers :
              /\ a.out.status = "ok"
              /\ a.out.points = [i \in Rows |-> Point(i)]
              /\ scatter_chart = a.out
        /\ \A a \in PieAnswers :
              /\ a.out.status = "ok"
              /\ a.out.slices = [site \in SitesOf(csv) |-> Successes(site)]
              /\ pie_chart = a.out

\* Both first answers are in, for a file whose payloads start above the
\* slider's minimum and differ.
C10_Witness ==
    /\ pc = "open"
    /\ nEvents = 0
    /\ Cardinality(served) = 2
    /\ payload_slider[1] > SliderMin
    /\ payload_slider[1] < payload_slider[2]
    /\ Len(scatter_chart.points) = Len(csv)

====
